---- MODULE Spec2Model ----
(***************************************************************************)
(* Gripper actuation and mount control of burg_toolkit:                    *)
(*   GripperBase          (src/burg_toolkit/gripper/base.py)               *)
(*   GripperWSG32         (src/burg_toolkit/gripper_module/wsg_32.py)      *)
(*   GripperRobotiq2F140  (.../gripper_module/gripper_robotiq_2f_140.py)   *)
(*   MountedGripper       (src/burg_toolkit/gripper/base.py)               *)
(*                                                                         *)
(* Units.  open_scale is counted in tenths (10 = 1.0), joint positions in  *)
(* 1e-4 (m or rad), masses are exact rationals <<n, d>> of 0.1 kg, time is *)
(* counted in ticks, one simulation step lasting Dt ticks and one          *)
(* simulated second lasting StepsPerSecond steps.                          *)
(***************************************************************************)
EXTENDS Integers, Sequences, FiniteSets, TLC

(* ------------------------------ bounds -------------------------------- *)
\* ticks per simulation step (the simulator's dt)
Dt == 2
\* simulation steps per simulated second
StepsPerSecond == 2
\* largest timeout handed to go_to_cartesian_pos, in ticks
MaxTimeout == 5
\* the carriage's workspace is the cube (0..PosMax)^3
PosMax == 1
\* no blocking call (close, go_to_cartesian_pos) starts after this many steps
MaxSimSteps == 2
\* mass of every link of a freshly loaded asset, in 0.1 kg
AssetLinkMass == 2

(* ----------------------- constants of the source ---------------------- *)
\* wsg_32.py:14, 0.028 * gripper_size with gripper_size = 1.0
FingerOpenDistance == 280
\* gripper_robotiq_2f_140.py:21
DriverJointLower == 0
\* gripper_robotiq_2f_140.py:22
DriverJointUpper == 7000
\* wsg_32.py:41, gripper_robotiq_2f_140.py:26: 0.1 <= open_scale
OpenScaleMin == 1
\* wsg_32.py:41, gripper_robotiq_2f_140.py:26: open_scale <= 1.0
OpenScaleMax == 10
\* wsg_32.py:68, gripper_robotiq_2f_140.py:68: step(seconds=2)
CloseSeconds == 2
\* base.py:170, default base_mass = 0.4
DefaultBaseMass == 4
\* base.py:170, default combined_finger_mass = 0.1
DefaultFingerMass == 1

None == "None"
Variants == {"WSG32", "Robotiq2F140"}
\* joint counts of the bodies the shared operations are tried on
JointCounts == {1, 2, 5}

(* --------------------------- exact rationals -------------------------- *)
RECURSIVE GCD(_, _)
GCD(a, b) == IF b = 0 THEN a ELSE GCD(b, a % b)

Abs(x) == IF x < 0 THEN -x ELSE x

\* n/d in lowest terms, d > 0
Rat(n, d) ==
    LET g == GCD(Abs(n), d) IN
    IF n = 0 THEN <<0, 1>> ELSE <<n \div g, d \div g>>

RatAdd(p, q) == Rat(p[1] * q[2] + q[1] * p[2], p[2] * q[2])

RECURSIVE RatSum(_, _)
\* the sum of f[i] over the finite set S of indices
RatSum(f, S) ==
    IF S = {} THEN <<0, 1>>
    ELSE LET i == CHOOSE x \in S : TRUE IN RatAdd(f[i], RatSum(f, S \ {i}))

(* ------------------------ the gripper variants ------------------------ *)
\* joints of the variant's body: the joint ids the class addresses are
\* 0..3 (WSG32: moving 0, 2; contact 1, 3) and 0..9 (Robotiq2F140)
AssetNumJoints(v) == IF v = "WSG32" THEN 4 ELSE 10

driver_joint_id(v) == 0

\* the follower joints, in the order the class lists them
follower_joint_ids(v) == IF v = "WSG32" THEN <<2>> ELSE <<5, 2, 7, 4, 9>>

\* WSG32 issues targetPosition = -pos, i.e. sign -1
follower_joint_sign(v) == IF v = "WSG32" THEN <<-1>> ELSE <<-1, 1, 1, -1, -1>>

force(v) == IF v = "WSG32" THEN 100 ELSE 50

\* in tenths: 0.1 and 0.8
grasp_speed(v) == IF v = "WSG32" THEN 1 ELSE 8

FollowerSet(v) == {follower_joint_ids(v)[i] : i \in 1..Len(follower_joint_ids(v))}

\* a slip: the lower bound is forgotten
ValidOpenScaleNoLowerBound(s) == s <= OpenScaleMax

\* the assertion 0.1 <= open_scale <= 1.0 (s in tenths)
ValidOpenScale(s) == OpenScaleMin <= s /\ s <= OpenScaleMax

(* ------------------------------- state -------------------------------- *)
VARIABLES
    variant,          \* which concrete class the gripper object is
    body_id,          \* GripperBase._body_id
    cached_mass,      \* GripperBase.__mass
    basePos,          \* engine: base position of the gripper body
    jointPos,         \* engine: position of every joint of the gripper body
    linkMass,         \* engine: mass of link -1 (base) and of every joint link
    linkFriction,     \* engine: friction parameters of every link
    linkColor,        \* engine: rgba colour of every link
    motor,            \* engine: the motor command standing on every joint
    step_funcs,       \* simulator: the registered per-step callbacks
    simulated_steps,  \* simulator: steps advanced so far
    cb_calls,         \* callback invocations made by the latest step
    mount_id,         \* MountedGripper.mount_id, None while no mount exists
    mountPos,         \* engine: base position of the (fixed-base) carriage
    mountMotor,       \* engine: motor command on every carriage joint
    eePos,            \* engine: world position of the carriage's end effector
    constraints,      \* engine: the constraints created so far
    pc,               \* "idle", or the blocking call in progress
    frame,            \* locals of the blocking call in progress
    lastOp,           \* the latest finished call: name, outcome, engine calls
    listdir,          \* create_object_library: the grasp files of acronym_dir
    max_workers,      \* create_object_library: args.max_workers
    chunks,           \* process pool: the chunks no worker has taken yet
    worker,           \* process pool: what every worker process is doing
    vhacd_files,      \* the shapes whose VHACD file exists on disk
    object_types,     \* identifiers of the object types the pool has completed
    lib,              \* the object library main has filled
    main_pc           \* where main of create_object_library is

gripperVars == <<variant, body_id, cached_mass>>
bodyVars == <<basePos, jointPos, linkMass, linkFriction, linkColor, motor>>
simVars == <<step_funcs, simulated_steps, cb_calls>>
mountVars == <<mount_id, mountPos, mountMotor, eePos, constraints>>
vars == <<variant, body_id, cached_mass, basePos, jointPos, linkMass,
          linkFriction, linkColor, motor, step_funcs, simulated_steps,
          cb_calls, mount_id, mountPos, mountMotor, eePos, constraints, pc, frame,
          lastOp, listdir, max_workers, chunks, worker, vhacd_files,
          object_types, lib, main_pc>>
scriptVars == <<listdir, max_workers, chunks, worker, vhacd_files,
                object_types, lib, main_pc>>

GripperBody == "gripper"
MountBody == "mount"

NoCmd == [mode |-> "DEFAULT", target |-> 0, velocity |-> 0, force |-> 0, gain |-> 0]
NoFrame == [call |-> "none"]

\* the outcome record of a finished call; t0 is the simulator's step count
\* when the record is written
Outcome(op, arg, result, ret, calls) ==
    [op |-> op, arg |-> arg, result |-> result, ret |-> ret, calls |-> calls,
     t0 |-> simulated_steps]

RetNone == <<"none">>
RetBool(b) == <<"bool", b>>
RetVal(x) == <<"value", x>>

(* ------------------------- GripperBase (shared) ----------------------- *)
\* a slip: the gripper counts as loaded once load has been called
is_loaded_once_load_called == body_id # None \/ lastOp.op = "load"

\* is_loaded(), lines 52-56, over the body_id property, lines 120-125
is_loaded == body_id # None

\* the engine's answer to getNumJoints(body_id): the joints of the body
getNumJoints == Cardinality(DOMAIN jointPos)

Links(nj) == (-1)..(nj - 1)
Joints(nj) == 0..(nj - 1)

\* mass, lines 136-139: the base's mass plus the mass of every joint link
SumOfMasses(lm, nj) == RatAdd(lm[-1], RatSum(lm, Joints(nj)))

\* a slip: the finger mass is spread over the joints and the base
MassesConfiguredOverAllLinks(lm, nj, base_mass, combined_finger_mass) ==
    [l \in DOMAIN lm |->
        IF l = -1 THEN Rat(base_mass, 1)
        ELSE IF l \in Joints(nj) THEN Rat(combined_finger_mass, nj + 1)
        ELSE lm[l]]

\* configure_mass, lines 176-178: the link masses after the calls
MassesConfigured(lm, nj, base_mass, combined_finger_mass) ==
    [l \in DOMAIN lm |->
        IF l = -1 THEN Rat(base_mass, 1)
        ELSE IF l \in Joints(nj) THEN Rat(combined_finger_mass, nj)
        ELSE lm[l]]

\* configure_friction, lines 165-168: only the joint links are touched
FrictionConfigured(lf, nj, fr) ==
    [l \in DOMAIN lf |-> IF l \in Joints(nj) THEN fr ELSE lf[l]]

\* set_color, lines 148-152: a 3-element colour gets alpha 1 appended and
\* every link from -1 on is painted
ColorsSet(lc, nj, color) ==
    LET rgba == IF Len(color) = 3 THEN Append(color, 1) ELSE color IN
    [l \in DOMAIN lc |-> IF l \in Links(nj) THEN rgba ELSE lc[l]]

\* lateral 1.0, spinning 1.0, rolling 0.0001 (in 1e-4), anchor
DefaultFriction == <<10000, 10000, 1, TRUE>>
AssetFriction == <<5000, 0, 0, FALSE>>
AssetColor == <<1, 1, 1, 1>>

\* the arguments the calls are tried with
MassArgs == {<<DefaultBaseMass, DefaultFingerMass>>, <<3, 3>>}
FrictionArgs == {DefaultFriction}
ColorArgs == {<<5, 5, 5>>}

Idle == pc = "idle"

\* a call that fails before it changes anything
Fails(op, arg, result) ==
    /\ lastOp' = Outcome(op, arg, result, RetNone, 0)
    /\ UNCHANGED <<scriptVars, gripperVars, bodyVars, simVars, mountVars, pc, frame>>

\* a slip: the sum is taken anew at every read
mass_uncached ==
    /\ Idle
    /\ IF ~is_loaded
       THEN Fails("mass", <<>>, "AssertionError")
       ELSE LET m == SumOfMasses(linkMass, getNumJoints) IN
            /\ cached_mass' = m
            /\ lastOp' = Outcome("mass", <<>>, "ok", RetVal(m), getNumJoints + 2)
            /\ UNCHANGED <<scriptVars, variant, body_id, bodyVars, simVars, mountVars, pc, frame>>

\* mass (property), lines 127-141
mass ==
    /\ Idle
    /\ IF cached_mass = None
       THEN IF ~is_loaded
            THEN Fails("mass", <<>>, "AssertionError")
            ELSE LET m == SumOfMasses(linkMass, getNumJoints) IN
                 /\ cached_mass' = m
                 /\ lastOp' = Outcome("mass", <<>>, "ok", RetVal(m), getNumJoints + 2)
                 /\ UNCHANGED <<scriptVars, variant, body_id, bodyVars, simVars, mountVars, pc, frame>>
       ELSE /\ lastOp' = Outcome("mass", <<>>, "ok", RetVal(cached_mass), 0)
            /\ UNCHANGED <<scriptVars, gripperVars, bodyVars, simVars, mountVars, pc, frame>>

\* set_color, lines 143-152
set_color ==
    /\ Idle
    /\ \E color \in ColorArgs :
        IF ~is_loaded
        THEN Fails("set_color", color, "AssertionError")
        ELSE /\ linkColor' = ColorsSet(linkColor, getNumJoints, color)
             /\ lastOp' = Outcome("set_color", color, "ok", RetNone, getNumJoints + 2)
             /\ UNCHANGED <<scriptVars, gripperVars, basePos, jointPos, linkMass, linkFriction,
                            motor, simVars, mountVars, pc, frame>>

\* num_joints (property), lines 154-157
num_joints ==
    /\ Idle
    /\ IF ~is_loaded
       THEN Fails("num_joints", <<>>, "AssertionError")
       ELSE /\ lastOp' = Outcome("num_joints", <<>>, "ok", RetVal(getNumJoints), 1)
            /\ UNCHANGED <<scriptVars, gripperVars, bodyVars, simVars, mountVars, pc, frame>>

\* configure_friction, lines 159-168
configure_friction ==
    /\ Idle
    /\ \E fr \in FrictionArgs :
        IF ~is_loaded
        THEN Fails("configure_friction", fr, "AssertionError")
        ELSE /\ linkFriction' = FrictionConfigured(linkFriction, getNumJoints, fr)
             /\ lastOp' = Outcome("configure_friction", fr, "ok", RetNone, getNumJoints + 1)
             /\ UNCHANGED <<scriptVars, gripperVars, basePos, jointPos, linkMass, linkColor,
                            motor, simVars, mountVars, pc, frame>>

\* configure_mass(base_mass, combined_finger_mass), lines 170-178
configure_mass_call(a) ==
    /\ Idle
    /\ IF ~is_loaded
       THEN Fails("configure_mass", a, "AssertionError")
       ELSE /\ linkMass' = MassesConfigured(linkMass, getNumJoints, a[1], a[2])
            /\ lastOp' = Outcome("configure_mass", a, "ok", RetNone, 2 * getNumJoints + 2)
            /\ UNCHANGED <<scriptVars, gripperVars, basePos, jointPos, linkFriction, linkColor,
                           motor, simVars, mountVars, pc, frame>>

configure_mass == \E a \in MassArgs : configure_mass_call(a)

\* configure_mass() with its default arguments
configure_mass_default == configure_mass_call(<<DefaultBaseMass, DefaultFingerMass>>)

\* a slip: the joint states are asked for before the joints are counted, so
\* the engine is called with the null handle and the unloaded gripper
\* answers with an empty list
joint_positions_unguarded ==
    /\ Idle
    /\ lastOp' = Outcome("joint_positions", <<>>, "ok",
                         RetVal(IF is_loaded THEN [j \in Joints(getNumJoints) |-> jointPos[j]]
                                ELSE <<>>), 3)
    /\ UNCHANGED <<scriptVars, gripperVars, bodyVars, simVars, mountVars, pc, frame>>

\* joint_positions (property), lines 180-186: the arguments of getJointStates
\* are evaluated first, and range(self.num_joints) asserts is_loaded
joint_positions ==
    /\ Idle
    /\ IF ~is_loaded
       THEN Fails("joint_positions", <<>>, "AssertionError")
       ELSE /\ lastOp' = Outcome("joint_positions", <<>>, "ok",
                                 RetVal([j \in Joints(getNumJoints) |-> jointPos[j]]), 3)
            /\ UNCHANGED <<scriptVars, gripperVars, bodyVars, simVars, mountVars, pc, frame>>

(* ------------------ the variants: joints and coupling ----------------- *)
\* resetJointState on the joints ids[i], to targets[i]
JointsReset(jp, ids, targets) ==
    [j \in DOMAIN jp |->
        IF \E i \in 1..Len(ids) : ids[i] = j
        THEN targets[CHOOSE i \in 1..Len(ids) : ids[i] = j]
        ELSE jp[j]]

moving_joint_ids == <<0, 2>>

\* a slip: the fingers are moved by the requested amount, not set to it
WSG32_set_open_scale_relative(jp, s) ==
    JointsReset(jp, moving_joint_ids,
                <<jp[0] - (FingerOpenDistance * s) \div 10,
                  jp[2] + (FingerOpenDistance * s) \div 10>>)

\* GripperWSG32.set_open_scale, lines 42-44 (s in tenths)
WSG32_set_open_scale(jp, s) ==
    JointsReset(jp, moving_joint_ids,
                <<-((FingerOpenDistance * s) \div 10),
                  (FingerOpenDistance * s) \div 10>>)

\* GripperRobotiq2F140.load, line 39 (s in tenths)
Robotiq_driver_pos(s) ==
    (s * DriverJointLower + (OpenScaleMax - s) * DriverJointUpper) \div OpenScaleMax

\* a slip: every follower is reset to the driver's position, the signs
\* dropped
Robotiq_initial_joints_unsigned(jp, s) ==
    LET driver_pos == Robotiq_driver_pos(s)
        follower_pos == [i \in 1..Len(follower_joint_sign("Robotiq2F140")) |-> driver_pos]
    IN JointsReset(JointsReset(jp, <<driver_joint_id("Robotiq2F140")>>, <<driver_pos>>),
                   follower_joint_ids("Robotiq2F140"), follower_pos)

\* GripperRobotiq2F140.load, lines 39-43
Robotiq_initial_joints(jp, s) ==
    LET driver_pos == Robotiq_driver_pos(s)
        follower_pos == [i \in 1..Len(follower_joint_sign("Robotiq2F140")) |->
                            driver_pos * follower_joint_sign("Robotiq2F140")[i]]
    IN JointsReset(JointsReset(jp, <<driver_joint_id("Robotiq2F140")>>, <<driver_pos>>),
                   follower_joint_ids("Robotiq2F140"), follower_pos)

\* position gain in tenths (1.8, 1.5) and the assistive target velocity
position_gain(v) == IF v = "WSG32" THEN 18 ELSE 15
follower_velocity(v) == IF v = "WSG32" THEN 2 * grasp_speed(v) ELSE 0

\* a slip: every follower is sent the driver's position, the signs dropped
CouplingTargetsUnsigned(v, pos) ==
    [i \in 1..Len(follower_joint_ids(v)) |-> pos]

\* step_constraints: the follower targets for the measured driver position
\* (wsg_32.py line 53, gripper_robotiq_2f_140.py line 49)
CouplingTargets(v, pos) ==
    [i \in 1..Len(follower_joint_ids(v)) |-> pos * follower_joint_sign(v)[i]]

\* a slip: the driver joint is sent its own position as a target, too
StepConstraintsDriverToo(v, jp, mt) ==
    LET pos == jp[driver_joint_id(v)]
        targets == CouplingTargets(v, pos)
        ids == follower_joint_ids(v)
    IN [j \in DOMAIN mt |->
          IF \E i \in 1..Len(ids) : ids[i] = j
          THEN [mode |-> "POSITION",
                target |-> targets[CHOOSE i \in 1..Len(ids) : ids[i] = j],
                velocity |-> follower_velocity(v), force |-> force(v),
                gain |-> position_gain(v)]
          ELSE IF j = driver_joint_id(v)
          THEN [mode |-> "POSITION", target |-> pos, velocity |-> 0,
                force |-> force(v), gain |-> position_gain(v)]
          ELSE mt[j]]

\* a slip: a follower's target is moved by the driver's position, from the
\* target standing on it
StepConstraintsRelative(v, jp, mt) ==
    LET pos == jp[driver_joint_id(v)]
        targets == CouplingTargets(v, pos)
        ids == follower_joint_ids(v)
    IN [j \in DOMAIN mt |->
          IF \E i \in 1..Len(ids) : ids[i] = j
          THEN [mode |-> "POSITION",
                target |-> mt[j].target
                             + targets[CHOOSE i \in 1..Len(ids) : ids[i] = j],
                velocity |-> follower_velocity(v), force |-> force(v),
                gain |-> position_gain(v)]
          ELSE mt[j]]

\* step_constraints: the motor commands standing after one invocation
StepConstraints(v, jp, mt) ==
    LET pos == jp[driver_joint_id(v)]
        targets == CouplingTargets(v, pos)
        ids == follower_joint_ids(v)
    IN [j \in DOMAIN mt |->
          IF \E i \in 1..Len(ids) : ids[i] = j
          THEN [mode |-> "POSITION",
                target |-> targets[CHOOSE i \in 1..Len(ids) : ids[i] = j],
                velocity |-> follower_velocity(v), force |-> force(v),
                gain |-> position_gain(v)]
          ELSE mt[j]]

\* a slip: the driver is sent a position target instead of a velocity
CloseCommandPosition(v) ==
    [mode |-> "POSITION", target |-> grasp_speed(v), velocity |-> 0,
     force |-> force(v), gain |-> 0]

\* close, lines 61-67: the command put on the driver joint
CloseCommand(v) ==
    [mode |-> "VELOCITY", target |-> 0, velocity |-> grasp_speed(v),
     force |-> force(v), gain |-> 0]

(* ------------------------- simulator and engine ----------------------- *)
RECURSIVE RunStepFuncs(_, _, _)
\* every registered callback is invoked once, in registration order
RunStepFuncs(funcs, jp, mt) ==
    IF funcs = <<>> THEN [motor |-> mt, calls |-> 0]
    ELSE LET rest == RunStepFuncs(Tail(funcs), jp, StepConstraints(variant, jp, mt))
         IN [motor |-> rest.motor, calls |-> rest.calls + 1]

\* how far a velocity-driven driver joint gets in one step, and where it stops
DriverStride(v) == IF v = "WSG32" THEN 140 ELSE 3500
DriverStop(v) == IF v = "WSG32" THEN 0 ELSE DriverJointUpper

Min(a, b) == IF a < b THEN a ELSE b

\* the followers that lag in one step: none, all, or the first one
LagSets(v) == {{}, FollowerSet(v), {follower_joint_ids(v)[1]}}

\* stepSimulation on the gripper body: a velocity-driven joint advances or is
\* held up, a position-driven joint reaches its target unless it lags
JointPhysics(v, jp, mt, advance, lag) ==
    [j \in DOMAIN jp |->
        IF mt[j].mode = "VELOCITY" /\ mt[j].velocity > 0 /\ advance
        THEN IF jp[j] >= DriverStop(v) THEN jp[j]
             ELSE Min(jp[j] + DriverStride(v), DriverStop(v))
        ELSE IF mt[j].mode = "POSITION" /\ j \notin lag THEN mt[j].target
        ELSE jp[j]]

Axes == 1..3
Workspace == [Axes -> 0..PosMax]
Vec(x, y, z) == [a \in Axes |-> IF a = 1 THEN x ELSE IF a = 2 THEN y ELSE z]
Origin == Vec(0, 0, 0)

Sign(x) == IF x > 0 THEN 1 ELSE IF x < 0 THEN -1 ELSE 0

\* stepSimulation on the carriage: the end effector stays, or moves one unit
\* along one axis toward the commanded joint targets, inside the workspace
MountPhysics(pos, base, mm) ==
    {pos} \cup
    {q \in Workspace :
        \E a \in Axes :
            /\ mm[a].mode = "POSITION"
            /\ q = [pos EXCEPT ![a] = @ + Sign(base[a] + mm[a].target - pos[a])]}

\* GraspSimulator.step(): the callbacks, then the engine, then the clock
SimulatorStep ==
    LET ran == RunStepFuncs(step_funcs, jointPos, motor) IN
    /\ motor' = ran.motor
    /\ cb_calls' = ran.calls
    /\ \E advance \in BOOLEAN, lag \in LagSets(variant) :
          jointPos' = JointPhysics(variant, jointPos, ran.motor, advance, lag)
    /\ IF mount_id = None
       THEN UNCHANGED <<eePos, basePos>>
       ELSE /\ eePos' \in MountPhysics(eePos, mountPos, mountMotor)
            /\ basePos' = eePos'
    /\ simulated_steps' = simulated_steps + 1
    /\ UNCHANGED <<scriptVars, gripperVars, linkMass, linkFriction, linkColor, step_funcs,
                   mount_id, mountPos, mountMotor, constraints>>

(* --------------------------- poses and offsets ------------------------ *)
\* Positions are in mm.  A quaternion is <<x, y, z, w>> (the engine's order),
\* each component a number (a + b*sqrt(2))/2 written <<a, b>>; these are the
\* components of the 48 unit quaternions of the rotations that map the
\* coordinate axes onto each other.
QZero == <<0, 0>>
QOne == <<2, 0>>
QHalf == <<1, 0>>
QRoot == <<0, 1>>
QNeg(u) == <<-u[1], -u[2]>>

\* the product of two components, in quarters: (a + b*sqrt(2))/4 as <<a, b>>
QProd(u, v) == <<u[1] * v[1] + 2 * u[2] * v[2], u[1] * v[2] + u[2] * v[1]>>
QPlus(u, v) == <<u[1] + v[1], u[2] + v[2]>>
QMinus(u, v) == <<u[1] - v[1], u[2] - v[2]>>
\* from quarters back to halves
QHalve(u) == <<u[1] \div 2, u[2] \div 2>>

\* Hamilton product of two quaternions <<x, y, z, w>>
QuatMul(q, r) ==
    LET x1 == q[1] y1 == q[2] z1 == q[3] w1 == q[4]
        x2 == r[1] y2 == r[2] z2 == r[3] w2 == r[4]
    IN << QHalve(QMinus(QPlus(QPlus(QProd(w1, x2), QProd(x1, w2)), QProd(y1, z2)),
                        QProd(z1, y2))),
          QHalve(QPlus(QPlus(QMinus(QProd(w1, y2), QProd(x1, z2)), QProd(y1, w2)),
                       QProd(z1, x2))),
          QHalve(QPlus(QMinus(QPlus(QProd(w1, z2), QProd(x1, y2)), QProd(y1, x2)),
                       QProd(z1, w2))),
          QHalve(QMinus(QMinus(QMinus(QProd(w1, w2), QProd(x1, x2)), QProd(y1, y2)),
                        QProd(z1, z2))) >>

\* cosine and sine of k * pi/4
CosEighth(k) ==
    CASE k % 8 = 0 -> QOne
      [] k % 8 \in {1, 7} -> QRoot
      [] k % 8 \in {2, 6} -> QZero
      [] k % 8 \in {3, 5} -> QNeg(QRoot)
      [] OTHER -> QNeg(QOne)
SinEighth(k) == CosEighth(k + 6)

\* the rotation by k quarter turns about coordinate axis a
AxisQuat(a, k) ==
    [i \in 1..4 |-> IF i = 4 THEN CosEighth(k) ELSE IF i = a THEN SinEighth(k) ELSE QZero]

\* the engine's getQuaternionFromEuler([roll, pitch, yaw]), the angles in
\* quarter turns: roll about x, then pitch about y, then yaw about z
getQuaternionFromEuler(roll, pitch, yaw) ==
    QuatMul(QuatMul(AxisQuat(3, yaw), AxisQuat(2, pitch)), AxisQuat(1, roll))

\* the rotation matrix of a unit quaternion; every entry is an integer for
\* the quaternions above (the products are summed in quarters, then doubled)
QuatToMat(q) ==
    LET x == q[1] y == q[2] z == q[3] w == q[4]
        P(u, v) == QProd(u, v)[1]
    IN << << (2 - P(y, y) - P(z, z)) \div 2, (P(x, y) - P(z, w)) \div 2,
             (P(x, z) + P(y, w)) \div 2 >>,
          << (P(x, y) + P(z, w)) \div 2, (2 - P(x, x) - P(z, z)) \div 2,
             (P(y, z) - P(x, w)) \div 2 >>,
          << (P(x, z) - P(y, w)) \div 2, (P(y, z) + P(x, w)) \div 2,
             (2 - P(x, x) - P(y, y)) \div 2 >> >>

\* the 48 unit quaternions: one component +-1; or all four +-1/2; or two
\* components +-sqrt(2)/2 and two 0
CubeQuats ==
    {[i \in 1..4 |-> IF i = k THEN s ELSE QZero] :
        k \in 1..4, s \in {QOne, QNeg(QOne)}}
    \cup [1..4 -> {QHalf, QNeg(QHalf)}]
    \cup {[i \in 1..4 |-> IF i = kl[1] THEN s ELSE IF i = kl[2] THEN r ELSE QZero] :
            kl \in {c \in (1..4) \X (1..4) : c[1] < c[2]},
            s \in {QRoot, QNeg(QRoot)}, r \in {QRoot, QNeg(QRoot)}}

QPositive(u) == u[1] > 0 \/ u[2] > 0

\* of q and -q, which are the same rotation, the one whose first non-zero
\* component in the order w, x, y, z is positive
QuatCanonical(q) ==
    \/ QPositive(q[4])
    \/ q[4] = QZero /\ QPositive(q[1])
    \/ q[4] = QZero /\ q[1] = QZero /\ QPositive(q[2])
    \/ q[4] = QZero /\ q[1] = QZero /\ q[2] = QZero /\ QPositive(q[3])

MatToQuat(m) == CHOOSE q \in CubeQuats : QuatCanonical(q) /\ QuatToMat(q) = m

MatMul(m, n) ==
    [i \in Axes |-> [j \in Axes |-> m[i][1] * n[1][j] + m[i][2] * n[2][j] + m[i][3] * n[3][j]]]
MatVec(m, v) ==
    [i \in Axes |-> m[i][1] * v[1] + m[i][2] * v[2] + m[i][3] * v[3]]
Transpose(m) == [i \in Axes |-> [j \in Axes |-> m[j][i]]]

\* a rigid transform (a 4x4 homogeneous matrix) as its rotation block and
\* its translation column
Tf(rot, pos) == [rot |-> rot, pos |-> pos]

\* util.tf_from_pos_quat(pos, quat, convention='pybullet')
tf_from_pos_quat(pos, quat) == Tf(QuatToMat(quat), pos)

\* util.position_and_quaternion_from_tf(tf, convention='pybullet')
position_and_quaternion_from_tf(tf) == <<tf.pos, MatToQuat(tf.rot)>>

\* the product a @ b of two homogeneous matrices
TfCompose(a, b) ==
    Tf(MatMul(a.rot, b.rot), [i \in Axes |-> MatVec(a.rot, b.pos)[i] + a.pos[i]])

\* the inverse of a rigid transform
TfInverse(a) ==
    Tf(Transpose(a.rot), [i \in Axes |-> 0 - MatVec(Transpose(a.rot), a.pos)[i]])

\* _pos_offset: [0, 0, 0.136 * gripper_size] and [0, 0, 0.235 * gripper_size]
\* with gripper_size = 1.0
get_pos_offset(v) == IF v = "WSG32" THEN Vec(0, 0, 136) ELSE Vec(0, 0, 235)

\* _orn_offset: getQuaternionFromEuler([pi, 0, pi/2]) in both classes
get_orn_offset(v) == getQuaternionFromEuler(2, 0, 1)

\* a slip: the operands of the product are exchanged
gripper_pose_offset_first(v, grasp_pose) ==
    TfCompose(tf_from_pos_quat(get_pos_offset(v), get_orn_offset(v)), grasp_pose)

\* _get_pos_orn_from_grasp_pose, lines 67-68: gripper_pose = grasp_pose @ tf2hand
gripper_pose(v, grasp_pose) ==
    TfCompose(grasp_pose, tf_from_pos_quat(get_pos_offset(v), get_orn_offset(v)))

\* _get_pos_orn_from_grasp_pose(grasp_pose), lines 58-70
get_pos_orn_from_grasp_pose ==
    /\ Idle
    /\ \E rot \in {QuatToMat(q) : q \in CubeQuats},
          pos \in {Origin, Vec(100, -50, 300), Vec(-7, 11, 0), Vec(0, 0, -136)} :
        LET grasp_pose == Tf(rot, pos) IN
        /\ lastOp' = Outcome("_get_pos_orn_from_grasp_pose", grasp_pose, "ok",
                             RetVal(position_and_quaternion_from_tf(
                                        gripper_pose(variant, grasp_pose))), 0)
        /\ UNCHANGED <<scriptVars, gripperVars, bodyVars, simVars, mountVars, pc, frame>>

(* ------------------------------- load --------------------------------- *)
BasePositions == {Origin}
OpenScales == {0, 1, 10, 15}

\* the open_scale argument of GripperRobotiq2F140.load: left out, or given
LoadOpenScaleArgs == {<<>>} \cup {<<s>> : s \in OpenScales}

\* a slip: a load that is given no open scale loads the gripper closed
default_open_scale_closed == OpenScaleMin

\* the open scale of a load that is given none: the default open_scale=1.0
\* (gripper_robotiq_2f_140.py line 25), set_open_scale(1.0) (wsg_32.py line 37)
default_open_scale == OpenScaleMax

\* the body loadURDF creates: asset values on every link, joints at 0
FreshJointPos(nj) == [j \in Joints(nj) |-> 0]
FreshLinkMass(nj) == [l \in Links(nj) |-> Rat(AssetLinkMass, 1)]
FreshLinkFriction(nj) == [l \in Links(nj) |-> AssetFriction]
FreshLinkColor(nj) == [l \in Links(nj) |-> AssetColor]
FreshMotor(nj) == [j \in Joints(nj) |-> NoCmd]

\* GraspSimulator.register_step_func
register_step_func(funcs, f) == Append(funcs, f)

\* a slip: load returns without registering the coupling callback
load_registration_missing(funcs) == funcs

\* the last statement of load (wsg_32.py line 38,
\* gripper_robotiq_2f_140.py line 45)
load_registration(funcs) == register_step_func(funcs, "step_constraints")

\* a slip: the callback is registered before the asset is loaded, so a load
\* the engine rejects leaves it registered
load_rejected_after_registration(arg) ==
    /\ lastOp' = Outcome("load", arg, "EngineError", RetNone, 1)
    /\ step_funcs' = register_step_func(step_funcs, "step_constraints")
    /\ UNCHANGED <<scriptVars, gripperVars, bodyVars, simulated_steps, cb_calls, mountVars,
                   pc, frame>>

\* loadURDF raises (wsg_32.py lines 28-33, gripper_robotiq_2f_140.py lines
\* 28-34): nothing catches it, so load ends there, after that one engine
\* call and before _body_id is assigned
load_rejected(arg) ==
    /\ lastOp' = Outcome("load", arg, "EngineError", RetNone, 1)
    /\ UNCHANGED <<scriptVars, gripperVars, bodyVars, simVars, mountVars, pc, frame>>

\* GripperWSG32.load(grasp_pose), lines 25-38.  A second load of a loaded
\* gripper is outside the contract and is not modelled.
WSG32_load ==
    /\ Idle /\ variant = "WSG32" /\ ~is_loaded
    /\ \E position \in BasePositions, accepted \in BOOLEAN :
        IF ~accepted
        THEN load_rejected(<<position>>)
        ELSE LET nj == AssetNumJoints("WSG32") IN
             /\ body_id' = GripperBody
             /\ basePos' = position
             /\ linkColor' = ColorsSet(FreshLinkColor(nj), nj, <<5, 5, 5>>)
             /\ linkFriction' = FrictionConfigured(FreshLinkFriction(nj), nj, DefaultFriction)
             /\ linkMass' = MassesConfigured(FreshLinkMass(nj), nj,
                                             DefaultBaseMass, DefaultFingerMass)
             /\ jointPos' = WSG32_set_open_scale(FreshJointPos(nj), default_open_scale)
             /\ motor' = FreshMotor(nj)
             /\ step_funcs' = load_registration(step_funcs)
             /\ lastOp' = Outcome("load", <<position>>, "ok", RetNone, 5 * nj + 8)
             /\ UNCHANGED <<scriptVars, variant, cached_mass, simulated_steps, cb_calls,
                            mountVars, pc, frame>>

\* GripperRobotiq2F140.load(position, orientation, open_scale), lines 25-45
Robotiq_load ==
    /\ Idle /\ variant = "Robotiq2F140" /\ ~is_loaded
    /\ \E position \in BasePositions, given \in LoadOpenScaleArgs, accepted \in BOOLEAN :
        LET open_scale == IF given = <<>> THEN default_open_scale ELSE given[1]
            arg == <<position>> \o given
        IN
        IF ~ValidOpenScale(open_scale)
        THEN Fails("load", arg, "AssertionError")
        ELSE IF ~accepted
        THEN load_rejected(arg)
        ELSE LET nj == AssetNumJoints("Robotiq2F140") IN
             /\ body_id' = GripperBody
             /\ basePos' = position
             /\ linkColor' = FreshLinkColor(nj)
             /\ linkFriction' = FrictionConfigured(FreshLinkFriction(nj), nj, DefaultFriction)
             /\ linkMass' = MassesConfigured(FreshLinkMass(nj), nj,
                                             DefaultBaseMass, DefaultFingerMass)
             /\ jointPos' = Robotiq_initial_joints(FreshJointPos(nj), open_scale)
             /\ motor' = FreshMotor(nj)
             /\ step_funcs' = load_registration(step_funcs)
             /\ lastOp' = Outcome("load", arg, "ok", RetNone, 3 * nj + 10)
             /\ UNCHANGED <<scriptVars, variant, cached_mass, simulated_steps, cb_calls,
                            mountVars, pc, frame>>

\* the first statement of a load: the asset is loaded and the handle kept
\* (wsg_32.py lines 28-33), for a gripper class whose asset has nj joints
load_asset ==
    /\ Idle /\ variant = "GripperBase" /\ ~is_loaded
    /\ \E nj \in JointCounts :
         /\ body_id' = GripperBody
         /\ jointPos' = FreshJointPos(nj)
         /\ linkMass' = FreshLinkMass(nj)
         /\ linkFriction' = FreshLinkFriction(nj)
         /\ linkColor' = FreshLinkColor(nj)
         /\ motor' = FreshMotor(nj)
         /\ lastOp' = Outcome("load", <<Origin>>, "ok", RetNone, 1)
         /\ UNCHANGED <<scriptVars, variant, cached_mass, basePos, simVars, mountVars, pc, frame>>

\* a slip: the fingers are driven to the open amount by position commands
\* instead of being reset to it
set_open_scale_by_motor ==
    /\ Idle /\ variant = "WSG32"
    /\ \E open_scale \in OpenScales :
        IF ~ValidOpenScale(open_scale)
        THEN Fails("set_open_scale", <<open_scale>>, "AssertionError")
        ELSE IF ~is_loaded
        THEN /\ lastOp' = Outcome("set_open_scale", <<open_scale>>, "EngineError", RetNone, 1)
             /\ UNCHANGED <<scriptVars, gripperVars, bodyVars, simVars, mountVars, pc, frame>>
        ELSE /\ motor' = [j \in DOMAIN motor |->
                            IF j \in {0, 2}
                            THEN [mode |-> "POSITION",
                                  target |-> WSG32_set_open_scale(jointPos, open_scale)[j],
                                  velocity |-> 0, force |-> force(variant), gain |-> 0]
                            ELSE motor[j]]
             /\ lastOp' = Outcome("set_open_scale", <<open_scale>>, "ok", RetNone, 2)
             /\ UNCHANGED <<scriptVars, gripperVars, basePos, jointPos, linkMass, linkFriction,
                            linkColor, simVars, mountVars, pc, frame>>

\* GripperWSG32.set_open_scale(open_scale), lines 40-44; the Robotiq class
\* defines no set_open_scale.  With the null handle the engine refuses the
\* first resetJointState.
set_open_scale ==
    /\ Idle /\ variant = "WSG32"
    /\ \E open_scale \in OpenScales :
        IF ~ValidOpenScale(open_scale)
        THEN Fails("set_open_scale", <<open_scale>>, "AssertionError")
        ELSE IF ~is_loaded
        THEN /\ lastOp' = Outcome("set_open_scale", <<open_scale>>, "EngineError", RetNone, 1)
             /\ UNCHANGED <<scriptVars, gripperVars, bodyVars, simVars, mountVars, pc, frame>>
        ELSE /\ jointPos' = WSG32_set_open_scale(jointPos, open_scale)
             /\ lastOp' = Outcome("set_open_scale", <<open_scale>>, "ok", RetNone, 2)
             /\ UNCHANGED <<scriptVars, gripperVars, basePos, linkMass, linkFriction, linkColor,
                            motor, simVars, mountVars, pc, frame>>

\* step_constraints called directly (it is a public method), lines 46-58 and
\* 47-58: one read of the driver joint, one motor command, returns pos
step_constraints ==
    /\ Idle
    /\ IF ~is_loaded
       THEN /\ lastOp' = Outcome("step_constraints", <<>>, "EngineError", RetNone, 1)
            /\ UNCHANGED <<scriptVars, gripperVars, bodyVars, simVars, mountVars, pc, frame>>
       ELSE /\ motor' = StepConstraints(variant, jointPos, motor)
            /\ lastOp' = Outcome("step_constraints", <<>>, "ok",
                                 RetVal(jointPos[driver_joint_id(variant)]), 2)
            /\ UNCHANGED <<scriptVars, gripperVars, basePos, jointPos, linkMass, linkFriction,
                           linkColor, simVars, mountVars, pc, frame>>

(* -------------------------- contact requirement ----------------------- *)
\* An entry of a contact requirement: a single link id, or a nested group of
\* link ids
Link(l) == [kind |-> "link", ids |-> <<l>>]
AnyOf(ls) == [kind |-> "group", ids |-> ls]

\* _contact_joint_ids = [1, 3] (wsg_32.py line 17) and _contact_joints =
\* [3, 8] (gripper_robotiq_2f_140.py line 23)
contact_link_ids(v) ==
    IF v = "WSG32" THEN <<Link(1), Link(3)>> ELSE <<Link(3), Link(8)>>

\* the example of the docstring (base.py line 97): [link1, [link3, link4]]
NestedRequirement == <<Link(1), AnyOf(<<3, 4>>)>>

\* the links contacts are reported for
ContactLinks == {1, 3, 4, 8}

\* a slip: the requirement is read off the loaded body, and is empty before
get_contact_link_ids_of_body ==
    /\ Idle
    /\ lastOp' = Outcome("get_contact_link_ids", <<>>, "ok",
                         RetVal(IF is_loaded THEN contact_link_ids(variant) ELSE <<>>), 0)
    /\ UNCHANGED <<scriptVars, gripperVars, bodyVars, simVars, mountVars, pc, frame>>

\* get_contact_link_ids(), wsg_32.py lines 82-83 and
\* gripper_robotiq_2f_140.py lines 83-84
get_contact_link_ids ==
    /\ Idle
    /\ lastOp' = Outcome("get_contact_link_ids", <<>>, "ok",
                         RetVal(contact_link_ids(variant)), 0)
    /\ UNCHANGED <<scriptVars, gripperVars, bodyVars, simVars, mountVars, pc, frame>>

\* one entry against the links in contact
EntrySatisfied(entry, in_contact) ==
    IF entry.kind = "link" THEN entry.ids[1] \in in_contact
    ELSE \E i \in 1..Len(entry.ids) : entry.ids[i] \in in_contact

\* the requirement against the links in contact: every top-level entry
RequirementSatisfied(requirement, in_contact) ==
    \A i \in 1..Len(requirement) : EntrySatisfied(requirement[i], in_contact)

\* the judgement of a grasp: the engine reports the links in contact with the
\* object and the requirement is evaluated against them
contacts_satisfied ==
    /\ Idle /\ is_loaded
    /\ \E requirement \in {contact_link_ids(variant), NestedRequirement},
          in_contact \in SUBSET ContactLinks :
        /\ lastOp' = Outcome("contacts_satisfied",
                             [requirement |-> requirement, in_contact |-> in_contact],
                             "ok",
                             RetBool(RequirementSatisfied(requirement, in_contact)), 1)
        /\ UNCHANGED <<scriptVars, gripperVars, bodyVars, simVars, mountVars, pc, frame>>

(* ------------------------------- close -------------------------------- *)
\* step(seconds=2): the steps that make up the settling duration
CloseSteps == CloseSeconds * StepsPerSecond

\* close(), lines 60-68, up to the call of step: the driver joint is put
\* under velocity control
close ==
    /\ Idle /\ simulated_steps <= MaxSimSteps
    /\ IF ~is_loaded
       THEN /\ lastOp' = Outcome("close", <<>>, "EngineError", RetNone, 1)
            /\ UNCHANGED <<scriptVars, gripperVars, bodyVars, simVars, mountVars, pc, frame>>
       ELSE /\ motor' = [motor EXCEPT ![driver_joint_id(variant)] = CloseCommand(variant)]
            /\ pc' = "closing"
            /\ frame' = [call |-> "close", left |-> CloseSteps, t0 |-> simulated_steps]
            /\ UNCHANGED <<scriptVars, gripperVars, basePos, jointPos, linkMass, linkFriction,
                           linkColor, simVars, mountVars, lastOp>>

\* one step of step(seconds=2)
close_step ==
    /\ pc = "closing" /\ frame.left > 0
    /\ SimulatorStep
    /\ frame' = [frame EXCEPT !.left = @ - 1]
    /\ UNCHANGED <<pc, lastOp>>

\* close() returns (None)
close_return ==
    /\ pc = "closing" /\ frame.left = 0
    /\ pc' = "idle"
    /\ frame' = NoFrame
    /\ lastOp' = Outcome("close", [steps |-> simulated_steps - frame.t0], "ok", RetNone, 1)
    /\ UNCHANGED <<scriptVars, gripperVars, bodyVars, simVars, mountVars>>

(* --------------------------- MountedGripper --------------------------- *)
\* a slip: the carriage joints are held by a velocity command of 0
HoldCommandVelocity ==
    [mode |-> "VELOCITY", target |-> 0, velocity |-> 0, force |-> 1000, gain |-> 0]

\* lines 214-223: POSITION_CONTROL, targetPositions 0, forces 1000
HoldCommand == [mode |-> "POSITION", target |-> 0, velocity |-> 0, force |-> 1000, gain |-> 0]

\* a slip: the carriage is tied to the gripper's first joint link, not to
\* its base
AttachmentToFirstLink(gripper_body_id) ==
    [parent |-> MountBody, parentLink |-> "end_effector_link",
     child |-> gripper_body_id, childLink |-> 0, jointType |-> "JOINT_FIXED",
     parentFramePosition |-> Origin, childFramePosition |-> Origin]

\* the fixed constraint of lines 205-211
Attachment(gripper_body_id) ==
    [parent |-> MountBody, parentLink |-> "end_effector_link",
     child |-> gripper_body_id, childLink |-> -1, jointType |-> "JOINT_FIXED",
     parentFramePosition |-> Origin, childFramePosition |-> Origin]

\* MountedGripper.__init__(grasp_simulator, gripper_body_id), lines 196-223,
\* called with the body id of the gripper; one mount is modelled
MountedGripper_init ==
    /\ Idle /\ mount_id = None
    /\ IF ~is_loaded
       THEN /\ lastOp' = Outcome("MountedGripper", <<>>, "EngineError", RetNone, 1)
            /\ UNCHANGED <<scriptVars, gripperVars, bodyVars, simVars, mountVars, pc, frame>>
       ELSE /\ mount_id' = MountBody
            /\ mountPos' = basePos
            /\ eePos' = basePos
            /\ constraints' = constraints \cup {Attachment(body_id)}
            /\ mountMotor' = [a \in Axes |-> HoldCommand]
            /\ lastOp' = Outcome("MountedGripper", <<>>, "ok", RetNone, 5)
            /\ UNCHANGED <<scriptVars, gripperVars, bodyVars, simVars, pc, frame>>

\* joint_pos(), lines 225-231: the carriage joints' displacement
joint_pos ==
    /\ Idle /\ mount_id # None
    /\ lastOp' = Outcome("joint_pos", <<>>, "ok",
                         RetVal([a \in Axes |-> eePos[a] - mountPos[a]]), 1)
    /\ UNCHANGED <<scriptVars, gripperVars, bodyVars, simVars, mountVars, pc, frame>>

\* cartesian_pos(), lines 233-238
cartesian_pos ==
    /\ Idle /\ mount_id # None
    /\ lastOp' = Outcome("cartesian_pos", <<>>, "ok", RetVal(eePos), 1)
    /\ UNCHANGED <<scriptVars, gripperVars, bodyVars, simVars, mountVars, pc, frame>>

\* GraspSimulator.simulated_seconds, in ticks
simulated_seconds == simulated_steps * Dt

SqDist(p, q) ==
    (p[1] - q[1]) * (p[1] - q[1]) + (p[2] - q[2]) * (p[2] - q[2])
        + (p[3] - q[3]) * (p[3] - q[3])

\* np.linalg.norm(point - cartesian_pos) < tolerance, on exact integers: a
\* norm is never below a tolerance that is not positive
NormBelow(p, q, tolerance) == tolerance > 0 /\ SqDist(p, q) < tolerance * tolerance

\* point_reached(point), lines 272-273
point_reached(point, tolerance) == NormBelow(point, eePos, tolerance)

\* calculateInverseKinematics for the xyz carriage: the joint displacement
\* that puts the end effector on target_pos
calculateInverseKinematics(target_pos) ==
    [a \in Axes |-> target_pos[a] - mountPos[a]]

\* a slip: the inverse kinematics is solved on the first call only, later
\* calls re-issue the targets already standing on the carriage joints
go_to_call_reusing_targets(target_pos, timeout, tolerance) ==
    LET target_joint_pos ==
            IF \A a \in Axes : mountMotor[a] = HoldCommand
            THEN calculateInverseKinematics(target_pos)
            ELSE [a \in Axes |-> mountMotor[a].target]
    IN
    /\ Idle /\ mount_id # None /\ simulated_steps <= MaxSimSteps
    /\ frame' = [call |-> "go_to_cartesian_pos", target_pos |-> target_pos,
                 timeout |-> timeout, tolerance |-> tolerance,
                 end_time |-> simulated_seconds + timeout,
                 t0 |-> simulated_steps,
                 ik_calls |-> IF \A a \in Axes : mountMotor[a] = HoldCommand
                              THEN 1 ELSE 0]
    /\ mountMotor' = [a \in Axes |->
                        [mode |-> "POSITION", target |-> target_joint_pos[a],
                         velocity |-> 2, force |-> 500, gain |-> 2]]
    /\ pc' = "moving"
    /\ UNCHANGED <<scriptVars, gripperVars, bodyVars, simVars, mount_id, mountPos, eePos,
                   constraints, lastOp>>

\* go_to_cartesian_pos(target_pos, timeout, tolerance), lines 253-270: the
\* deadline, the inverse kinematics and one position command per carriage
\* joint; the loop follows
go_to_call(target_pos, timeout, tolerance) ==
    LET target_joint_pos == calculateInverseKinematics(target_pos) IN
    /\ Idle /\ mount_id # None /\ simulated_steps <= MaxSimSteps
    /\ frame' = [call |-> "go_to_cartesian_pos", target_pos |-> target_pos,
                 timeout |-> timeout, tolerance |-> tolerance,
                 end_time |-> simulated_seconds + timeout,
                 t0 |-> simulated_steps, ik_calls |-> 1]
    /\ mountMotor' = [a \in Axes |->
                        [mode |-> "POSITION", target |-> target_joint_pos[a],
                         velocity |-> 2, force |-> 500, gain |-> 2]]
    /\ pc' = "moving"
    /\ UNCHANGED <<scriptVars, gripperVars, bodyVars, simVars, mount_id, mountPos, eePos,
                   constraints, lastOp>>

\* the arguments the call is tried with: a target the carriage starts on, one
\* it can reach and one outside the workspace; timeouts that are negative
\* (by more and by less than a step), zero, and no multiple of the step;
\* tolerances that admit only the target itself, or also its neighbours
TargetPositions == {Origin, Vec(PosMax, PosMax, 0), Vec(PosMax + 2, 0, 0)}
Timeouts == {0 - (Dt + 1), 0 - 1, 0, Dt + 1, MaxTimeout}
Tolerances == {1, 2}

go_to_cartesian_pos ==
    \E target_pos \in TargetPositions, timeout \in Timeouts, tolerance \in Tolerances :
        go_to_call(target_pos, timeout, tolerance)

\* the same call with one short timeout and the tighter tolerance
go_to_cartesian_pos_short ==
    \E target_pos \in {Vec(PosMax, PosMax, 0), Vec(PosMax + 2, 0, 0)} :
        go_to_call(target_pos, Dt + 1, 1)

\* a slip: the loop runs on the clock alone
loop_condition_open_loop ==
    simulated_seconds < frame.end_time

\* a slip: <= in place of < on the clock
loop_condition_inclusive ==
    /\ ~point_reached(frame.target_pos, frame.tolerance)
    /\ simulated_seconds <= frame.end_time

\* the loop condition of line 275
loop_condition ==
    /\ ~point_reached(frame.target_pos, frame.tolerance)
    /\ simulated_seconds < frame.end_time

\* a slip: the loop body runs once before the condition is looked at
go_to_step_do_while ==
    /\ pc = "moving" /\ (loop_condition \/ simulated_steps = frame.t0)
    /\ SimulatorStep
    /\ UNCHANGED <<pc, frame, lastOp>>

\* one iteration of the loop of lines 275-276
go_to_step ==
    /\ pc = "moving" /\ loop_condition
    /\ SimulatorStep
    /\ UNCHANGED <<pc, frame, lastOp>>

\* a slip: the result is what ended the loop, not a fresh measurement
go_to_result_from_deadline ==
    simulated_seconds < frame.end_time

\* the check of line 280
go_to_result == point_reached(frame.target_pos, frame.tolerance)

\* a slip: on return the carriage joints are put back on hold at 0
go_to_return_releasing ==
    /\ pc = "moving" /\ ~loop_condition
    /\ pc' = "idle"
    /\ frame' = NoFrame
    /\ mountMotor' = [a \in Axes |-> HoldCommand]
    /\ lastOp' = [op |-> "go_to_cartesian_pos",
                  arg |-> [tolerance |-> frame.tolerance,
                           steps |-> simulated_steps - frame.t0,
                           timeout |-> frame.timeout,
                           ik_calls |-> frame.ik_calls],
                  result |-> "ok", ret |-> RetBool(go_to_result), calls |-> 0,
                  t0 |-> simulated_steps]
    /\ UNCHANGED <<scriptVars, gripperVars, bodyVars, simVars, mount_id, mountPos, eePos,
                   constraints>>

\* lines 278-286: the loop is left and the result returned
go_to_return ==
    /\ pc = "moving" /\ ~loop_condition
    /\ pc' = "idle"
    /\ frame' = NoFrame
    /\ lastOp' = [op |-> "go_to_cartesian_pos",
                  arg |-> [tolerance |-> frame.tolerance,
                           steps |-> simulated_steps - frame.t0,
                           timeout |-> frame.timeout,
                           ik_calls |-> frame.ik_calls],
                  result |-> "ok", ret |-> RetBool(go_to_result), calls |-> 0,
                  t0 |-> simulated_steps]
    /\ UNCHANGED <<scriptVars, gripperVars, bodyVars, simVars, mountVars>>

(* ===================== scripts/acronym/create_object_library ========== *)
\* A grasp file is named category_shape_scale.h5; the category is part of
\* the shape here.  No more than two files share a shape.
NumShapes == 7
Shapes == 1..NumShapes
Scales == {1, 2}
GraspFile(shape, scale) == [shape |-> shape, scale |-> scale]

\* the shapes main leaves out
IgnoreShapes == {4}

\* the chunksize handed to executor.map
ChunkSize == 10

\* the values of --max_workers
MaxWorkers == 2

\* the directories of grasp files: every shape once, some of them twice
Listings ==
    { {GraspFile(s, 1) : s \in Shapes} \cup {GraspFile(s, 2) : s \in twice} :
        twice \in SUBSET Shapes }

\* the order of the file names as strings
NameBefore(f, g) ==
    \/ f.shape < g.shape
    \/ f.shape = g.shape /\ f.scale < g.scale

RECURSIVE sorted(_)
sorted(files) ==
    IF files = {} THEN <<>>
    ELSE LET first == CHOOSE f \in files :
                         \A g \in files : f = g \/ NameBefore(f, g)
         IN <<first>> \o sorted(files \ {first})

\* seq[start::2], start counted from 0
EverySecond(seq, start) ==
    [i \in 1..((Len(seq) - start + 1) \div 2) |-> seq[start + 2 * i - 1]]

\* the file names in the order main hands them to the pool
filenames(files) ==
    LET sorted_filenames == sorted(files)
        reordered == EverySecond(sorted_filenames, 0)
                        \o EverySecond(sorted_filenames, 1)
        kept(f) == f.shape \notin IgnoreShapes
    IN SelectSeq(reordered, kept)

\* the chunks executor.map cuts its iterable into
get_chunks(seq) ==
    [c \in 1..((Len(seq) + ChunkSize - 1) \div ChunkSize) |->
        SubSeq(seq, (c - 1) * ChunkSize + 1,
               IF c * ChunkSize < Len(seq) THEN c * ChunkSize ELSE Len(seq))]

\* the identifier of the object type made from a grasp file
identifier(f) == <<f.shape, f.scale>>

IdleWorker == [pc |-> "idle", chunk |-> <<>>]

\* the state of the script before it is run
ScriptNotRun ==
    /\ listdir = {}
    /\ max_workers = 0
    /\ chunks = <<>>
    /\ worker = <<>>
    /\ vhacd_files = {}
    /\ object_types = {}
    /\ lib = {}
    /\ main_pc = "not_run"

GripperUntouched ==
    UNCHANGED <<variant, body_id, cached_mass, basePos, jointPos, linkMass,
                linkFriction, linkColor, motor, step_funcs, simulated_steps,
                cb_calls, mount_id, mountPos, mountMotor, eePos, constraints,
                pc, frame, lastOp>>

\* main up to executor.map: the file names are ordered and cut into chunks
main_executor_map ==
    /\ main_pc = "main"
    /\ chunks' = get_chunks(filenames(listdir))
    /\ worker' = [w \in 1..max_workers |-> IdleWorker]
    /\ main_pc' = "map"
    /\ UNCHANGED <<listdir, max_workers, vhacd_files, object_types, lib>>
    /\ GripperUntouched

\* a free worker process takes the next chunk and enters create_object_type
\* for its first file, up to the test for the VHACD file
process_chunk ==
    \E w \in DOMAIN worker :
        /\ main_pc = "map"
        /\ worker[w].pc = "idle"
        /\ chunks # <<>>
        /\ worker' = [worker EXCEPT ![w] = [pc |-> "isfile",
                                            chunk |-> Head(chunks)]]
        /\ chunks' = Tail(chunks)
        /\ UNCHANGED <<listdir, max_workers, vhacd_files, object_types, lib,
                       main_pc>>
        /\ GripperUntouched

\* if not os.path.isfile(vhacd_fn)
vhacd_isfile ==
    \E w \in DOMAIN worker :
        /\ worker[w].pc = "isfile"
        /\ LET f == Head(worker[w].chunk)
           IN worker' = [worker EXCEPT ![w].pc =
                            IF f.shape \in vhacd_files THEN "save_urdf"
                            ELSE "generate_vhacd"]
        /\ UNCHANGED <<listdir, max_workers, chunks, vhacd_files,
                       object_types, lib, main_pc>>
        /\ GripperUntouched

\* obj.generate_vhacd(vhacd_fn) has written the file
generate_vhacd ==
    \E w \in DOMAIN worker :
        /\ worker[w].pc = "generate_vhacd"
        /\ vhacd_files' = vhacd_files \cup {Head(worker[w].chunk).shape}
        /\ worker' = [worker EXCEPT ![w].pc = "save_urdf"]
        /\ UNCHANGED <<listdir, max_workers, chunks, object_types, lib,
                       main_pc>>
        /\ GripperUntouched

\* the rest of create_object_type; the worker goes on to the next file of
\* its chunk, or is free again
save_urdf ==
    \E w \in DOMAIN worker :
        /\ worker[w].pc = "save_urdf"
        /\ LET rest == Tail(worker[w].chunk)
           IN worker' = [worker EXCEPT ![w] =
                            IF rest = <<>> THEN IdleWorker
                            ELSE [pc |-> "isfile", chunk |-> rest]]
        /\ object_types' =
              object_types \cup {identifier(Head(worker[w].chunk))}
        /\ UNCHANGED <<listdir, max_workers, chunks, vhacd_files, lib,
                       main_pc>>
        /\ GripperUntouched

\* the pool has shut down; main puts the object types into the library
main_collect ==
    /\ main_pc = "map"
    /\ chunks = <<>>
    /\ \A w \in DOMAIN worker : worker[w].pc = "idle"
    /\ lib' = object_types
    /\ main_pc' = "done"
    /\ UNCHANGED <<listdir, max_workers, chunks, worker, vhacd_files,
                   object_types>>
    /\ GripperUntouched

(* --------------------------- the specification ------------------------ *)
Init ==
    /\ variant \in Variants
    /\ body_id = None
    /\ cached_mass = None
    /\ basePos = Origin
    /\ jointPos = <<>>
    /\ linkMass = <<>>
    /\ linkFriction = <<>>
    /\ linkColor = <<>>
    /\ motor = <<>>
    /\ step_funcs = <<>>
    /\ simulated_steps = 0
    /\ cb_calls = 0
    /\ mount_id = None
    /\ mountPos = Origin
    /\ mountMotor = <<>>
    /\ eePos = Origin
    /\ constraints = {}
    /\ pc = "idle"
    /\ frame = NoFrame
    /\ lastOp = Outcome("__init__", <<>>, "ok", RetNone, 0)
    /\ ScriptNotRun

Next ==
    \/ WSG32_load
    \/ Robotiq_load
    \/ set_open_scale
    \/ step_constraints
    \/ mass
    \/ set_color
    \/ num_joints
    \/ configure_friction
    \/ configure_mass_default
    \/ joint_positions
    \/ close
    \/ close_step
    \/ close_return
    \/ MountedGripper_init
    \/ joint_pos
    \/ cartesian_pos
    \/ go_to_cartesian_pos_short
    \/ go_to_step
    \/ go_to_return

Spec == Init /\ [][Next]_vars

\* the scheduling of the single thread: a blocking call that can go on, does
Fairness ==
    /\ WF_vars(close_step) /\ WF_vars(close_return)
    /\ WF_vars(go_to_step) /\ WF_vars(go_to_return)

FairSpec == Spec /\ Fairness

\* the mount on its own: every argument of go_to_cartesian_pos, and no call
\* of the gripper but load
NextMount ==
    \/ WSG32_load
    \/ Robotiq_load
    \/ MountedGripper_init
    \/ joint_pos
    \/ cartesian_pos
    \/ go_to_cartesian_pos
    \/ go_to_step
    \/ go_to_return

SpecMount == Init /\ [][NextMount]_vars

FairSpecMount == SpecMount /\ Fairness

\* the shared operations of GripperBase on their own, on bodies of 1, 2 and
\* 5 joints
InitBase ==
    /\ variant = "GripperBase"
    /\ body_id = None
    /\ cached_mass = None
    /\ basePos = Origin
    /\ jointPos = <<>>
    /\ linkMass = <<>>
    /\ linkFriction = <<>>
    /\ linkColor = <<>>
    /\ motor = <<>>
    /\ step_funcs = <<>>
    /\ simulated_steps = 0
    /\ cb_calls = 0
    /\ mount_id = None
    /\ mountPos = Origin
    /\ mountMotor = <<>>
    /\ eePos = Origin
    /\ constraints = {}
    /\ pc = "idle"
    /\ frame = NoFrame
    /\ lastOp = Outcome("__init__", <<>>, "ok", RetNone, 0)
    /\ ScriptNotRun

NextBase ==
    \/ load_asset
    \/ mass
    \/ set_color
    \/ num_joints
    \/ configure_friction
    \/ configure_mass
    \/ joint_positions

SpecBase == InitBase /\ [][NextBase]_vars

\* the placement of the gripper body for a grasp pose, on its own
NextPose ==
    \/ get_pos_orn_from_grasp_pose

SpecPose == Init /\ [][NextPose]_vars

\* a grasp and its judgement: load, open, close, and the contact requirement
NextContact ==
    \/ WSG32_load
    \/ Robotiq_load
    \/ set_open_scale
    \/ close
    \/ close_step
    \/ close_return
    \/ get_contact_link_ids
    \/ contacts_satisfied

SpecContact == Init /\ [][NextContact]_vars

\* create_object_library on its own, over every directory of Listings
InitScript ==
    /\ variant = "GripperBase"
    /\ body_id = None
    /\ cached_mass = None
    /\ basePos = Origin
    /\ jointPos = <<>>
    /\ linkMass = <<>>
    /\ linkFriction = <<>>
    /\ linkColor = <<>>
    /\ motor = <<>>
    /\ step_funcs = <<>>
    /\ simulated_steps = 0
    /\ cb_calls = 0
    /\ mount_id = None
    /\ mountPos = Origin
    /\ mountMotor = <<>>
    /\ eePos = Origin
    /\ constraints = {}
    /\ pc = "idle"
    /\ frame = NoFrame
    /\ lastOp = Outcome("__init__", <<>>, "ok", RetNone, 0)
    /\ listdir \in Listings
    /\ max_workers \in 1..MaxWorkers
    /\ chunks = <<>>
    /\ worker = <<>>
    /\ vhacd_files = {}
    /\ object_types = {}
    /\ lib = {}
    /\ main_pc = "main"

NextScript ==
    \/ main_executor_map
    \/ process_chunk
    \/ vhacd_isfile
    \/ generate_vhacd
    \/ save_urdf
    \/ main_collect

SpecScript == InitScript /\ [][NextScript]_vars

(* ======================= go_to_cartesian_pos ========================== *)
\* the target of the latest go_to_cartesian_pos, recovered from the commands
\* standing on the carriage joints
CommandedTarget == [a \in Axes |-> mountPos[a] + mountMotor[a].target]

ReturnedFromGoTo == pc = "idle" /\ lastOp.op = "go_to_cartesian_pos"

\* simulated time the latest go_to_cartesian_pos took, in ticks
GoToElapsed == lastOp.arg.steps * Dt

\* C1: go_to_cartesian_pos never raises; it returns a boolean, which is true
\* exactly when the end effector, measured as the call returns, is closer to
\* target_pos than tolerance (so false when the budget ran out first).
C1_ReturnsWhetherWithinTolerance ==
    ReturnedFromGoTo =>
        /\ lastOp.result = "ok"
        /\ lastOp.ret[1] = "bool"
        /\ lastOp.ret[2] = NormBelow(CommandedTarget, eePos, lastOp.arg.tolerance)

\* C1: a call that ran out of budget after advancing the simulation, and
\* returned false
C1_Witness ==
    /\ ReturnedFromGoTo
    /\ lastOp.ret = RetBool(FALSE)
    /\ lastOp.arg.steps > 0
    /\ GoToElapsed >= lastOp.arg.timeout

\* C2 as stated: whenever the call returns false, simulated time has advanced
\* by at least timeout and by less than timeout plus one step, for every
\* timeout.
C2_AsStated ==
    (ReturnedFromGoTo /\ lastOp.ret = RetBool(FALSE)) =>
        /\ GoToElapsed >= lastOp.arg.timeout
        /\ GoToElapsed < lastOp.arg.timeout + Dt

\* the deadline is the clock at call entry plus timeout, and the clock never
\* gets a whole step past it
DeadlineFixedAtEntry ==
    pc = "moving" =>
        /\ frame.end_time = frame.t0 * Dt + frame.timeout
        /\ \/ simulated_steps = frame.t0
           \/ simulated_seconds < frame.end_time + Dt

\* C2 (amended): go_to_cartesian_pos terminates; its deadline is fixed at call
\* entry; and when it returns false for a timeout above minus one step (so
\* for every timeout >= 0), simulated time has advanced since call entry by
\* at least timeout and by less than timeout plus one step.  For a timeout of
\* minus one step or less it returns false with the clock where it was.
C2_TerminatesWithinOneStepOfTimeout ==
    /\ [](DeadlineFixedAtEntry)
    /\ []((ReturnedFromGoTo /\ lastOp.ret = RetBool(FALSE)) =>
            IF lastOp.arg.timeout > 0 - Dt
            THEN /\ GoToElapsed >= lastOp.arg.timeout
                 /\ GoToElapsed < lastOp.arg.timeout + Dt
            ELSE lastOp.arg.steps = 0)
    /\ (pc = "moving" ~> pc = "idle")

\* C2: an unreachable target, a positive timeout that is no multiple of the
\* step, false returned after the first step boundary at or past the timeout
C2_Witness ==
    /\ ReturnedFromGoTo
    /\ lastOp.ret = RetBool(FALSE)
    /\ CommandedTarget \notin Workspace
    /\ lastOp.arg.timeout > 0
    /\ lastOp.arg.timeout % Dt # 0
    /\ GoToElapsed > lastOp.arg.timeout

\* C3: once the end effector is within tolerance of the target during a call,
\* the next thing the call does is return true, with no further step; and a
\* cartesian_pos() read right after a call that returned true is within
\* tolerance of the target.
C3_StopsAtFirstReach ==
    [][ /\ (pc = "moving" /\ point_reached(frame.target_pos, frame.tolerance)) =>
            /\ pc' = "idle"
            /\ simulated_steps' = simulated_steps
            /\ eePos' = eePos
            /\ lastOp'.op = "go_to_cartesian_pos"
            /\ lastOp'.ret = RetBool(TRUE)
        /\ (ReturnedFromGoTo /\ lastOp.ret = RetBool(TRUE)
                /\ pc' = "idle" /\ lastOp'.op = "cartesian_pos") =>
            NormBelow(CommandedTarget, lastOp'.ret[2], lastOp.arg.tolerance)
      ]_vars

\* C3: a call that reached its target after moving, before its timeout
C3_Witness ==
    /\ ReturnedFromGoTo
    /\ lastOp.ret = RetBool(TRUE)
    /\ lastOp.arg.steps > 0
    /\ GoToElapsed < lastOp.arg.timeout
    /\ eePos = CommandedTarget

(* ===================== open scale, shared operations ================== *)
\* the open_scale a finished load or set_open_scale was called with (the
\* default, 1.0, for a load that takes none)
OpenScaleArg(o) ==
    IF o.op = "set_open_scale" THEN o.arg[1]
    ELSE IF o.op = "load" /\ Len(o.arg) = 2 THEN o.arg[2]
    ELSE OpenScaleMax

OutOfRange(s) == s < OpenScaleMin \/ s > OpenScaleMax

\* C4: a load or set_open_scale called with an open scale outside [0.1, 1.0]
\* fails with the assertion (the invalid-argument condition) and changes
\* nothing: not the body handle, the cached mass, the body's joints and
\* links, the registered callbacks, the clock or the mount.
C4_InvalidOpenScaleChangesNothing ==
    [][ (/\ pc = "idle" /\ pc' = "idle"
         /\ lastOp'.op \in {"load", "set_open_scale"}
         /\ OutOfRange(OpenScaleArg(lastOp'))) =>
            /\ lastOp'.result = "AssertionError"
            /\ UNCHANGED <<scriptVars, gripperVars, bodyVars, simVars, mountVars>>
      ]_vars

\* C4: set_open_scale(1.5) refused on a loaded gripper
C4_Witness ==
    /\ is_loaded
    /\ lastOp.op = "set_open_scale"
    /\ lastOp.arg[1] > OpenScaleMax
    /\ lastOp.result = "AssertionError"

\* C5: after set_open_scale(s) with valid s on a loaded gripper, the joints
\* are where a further set_open_scale(s) puts them, a second call with the
\* same s right after the first changes no joint, and the call does not
\* advance simulated time.
C5_SetOpenScaleIdempotent ==
    [][ (/\ pc = "idle" /\ pc' = "idle"
         /\ lastOp'.op = "set_open_scale" /\ lastOp'.result = "ok") =>
            /\ simulated_steps' = simulated_steps
            /\ WSG32_set_open_scale(jointPos', lastOp'.arg[1]) = jointPos'
            /\ (lastOp = lastOp' => jointPos' = jointPos)
      ]_vars

\* C5: set_open_scale(0.1) has closed the fingers of a gripper loaded open
C5_Witness ==
    /\ is_loaded
    /\ lastOp.op = "set_open_scale" /\ lastOp.result = "ok"
    /\ lastOp.arg[1] = OpenScaleMin
    /\ jointPos[0] # 0 /\ jointPos[0] = -jointPos[2]
    /\ jointPos[2] * OpenScaleMax = FingerOpenDistance * OpenScaleMin

SharedOps ==
    {"mass", "num_joints", "joint_positions", "configure_friction",
     "configure_mass", "set_color"}

\* C6: on a gripper that is not loaded, mass, num_joints, joint_positions,
\* configure_friction, configure_mass and set_color fail with the assertion,
\* issue no engine call and hand back no value; nothing is cached and the
\* engine holds nothing of the gripper.
C6_UnloadedSharedOpsFail ==
    ~is_loaded =>
        /\ cached_mass = None
        /\ jointPos = <<>> /\ linkMass = <<>> /\ linkFriction = <<>>
        /\ linkColor = <<>> /\ motor = <<>>
        /\ lastOp.op \in SharedOps =>
            /\ lastOp.result = "AssertionError"
            /\ lastOp.calls = 0
            /\ lastOp.ret = RetNone

\* C6: joint_positions refused before load
C6_Witness ==
    /\ ~is_loaded
    /\ lastOp.op = "joint_positions"
    /\ lastOp.result = "AssertionError"

(* ============================== coupling ============================== *)
FollowerTargetsFollow(p, mt) ==
    \A i \in 1..Len(follower_joint_ids(variant)) :
        /\ mt[follower_joint_ids(variant)[i]].mode = "POSITION"
        /\ mt[follower_joint_ids(variant)[i]].target = p * follower_joint_sign(variant)[i]

\* C7: whenever the coupling callback runs, in a simulation step or called
\* directly, the position target it issues to follower i is sign_i times the
\* driver position it measured in that invocation (for WSG32, minus the
\* driver position).
C7_FollowerTargetsAreSignedDriverPosition ==
    [][ /\ (simulated_steps' # simulated_steps /\ step_funcs # <<>>) =>
            FollowerTargetsFollow(jointPos[driver_joint_id(variant)], motor')
        /\ (pc = "idle" /\ pc' = "idle" /\ lastOp'.op = "step_constraints"
                /\ lastOp'.result = "ok") =>
            /\ FollowerTargetsFollow(jointPos[driver_joint_id(variant)], motor')
            /\ lastOp'.ret = RetVal(jointPos[driver_joint_id(variant)])
      ]_vars

\* C7: the five-follower variant, the driver half closed, followers 2 and 5
\* commanded to plus and minus the driver's position
C7_Witness ==
    /\ variant = "Robotiq2F140" /\ is_loaded
    /\ simulated_steps > 0
    /\ jointPos[0] > 0 /\ jointPos[0] < DriverJointUpper
    /\ motor[2].mode = "POSITION" /\ motor[2].target = jointPos[0]
    /\ motor[5].mode = "POSITION" /\ motor[5].target = -jointPos[0]

\* C8: after configure_mass(base_mass, combined_finger_mass) on a loaded
\* gripper with k joints, the base link weighs base_mass, every joint link
\* weighs combined_finger_mass / k, and the joint links together weigh
\* combined_finger_mass.
C8_FingerMassSpreadOverJoints ==
    (lastOp.op = "configure_mass" /\ lastOp.result = "ok") =>
        /\ linkMass[-1] = Rat(lastOp.arg[1], 1)
        /\ \A j \in Joints(getNumJoints) :
              /\ linkMass[j][1] * getNumJoints = lastOp.arg[2] * linkMass[j][2]
              /\ linkMass[j] = Rat(lastOp.arg[2], getNumJoints)
        /\ RatSum(linkMass, Joints(getNumJoints)) = Rat(lastOp.arg[2], 1)

\* C8: five joints, a finger mass that five does not divide
C8_Witness ==
    /\ lastOp.op = "configure_mass" /\ lastOp.result = "ok"
    /\ getNumJoints = 5
    /\ lastOp.arg[2] % 5 # 0
    /\ linkMass[4] = <<lastOp.arg[2], 5>>

(* ========================= callbacks and close ======================== *)
CallbackRegistered ==
    step_funcs = IF is_loaded THEN <<"step_constraints">> ELSE <<>>

\* C9: no callback is registered before load (nor by a load that fails), a
\* successful load leaves exactly the variant's coupling callback registered,
\* and every simulation step, which only close() and go_to_cartesian_pos
\* advance, invokes every registered callback exactly once before the clock
\* moves and before the caller looks at the state again.
C9_CallbackRegisteredAndRunOncePerStep ==
    /\ [](CallbackRegistered)
    /\ [][ simulated_steps' # simulated_steps =>
              /\ simulated_steps' = simulated_steps + 1
              /\ pc \in {"closing", "moving"}
              /\ cb_calls' = Len(step_funcs)
              /\ cb_calls' = 1
         ]_vars

\* C9: a step of go_to_cartesian_pos has run the callback
C9_Witness ==
    /\ pc = "moving"
    /\ simulated_steps > frame.t0
    /\ cb_calls = 1
    /\ step_funcs = <<"step_constraints">>

TicksPerSecond == StepsPerSecond * Dt

\* C10: close() on a loaded gripper puts the driver joint, and no other
\* joint, under velocity control at the variant's grasp speed and force
\* limit without advancing time, then advances simulated time by exactly 2
\* seconds, returns nothing, and always returns.
C10_CloseCommandsDriverThenSettles ==
    /\ [][ (pc = "idle" /\ pc' = "closing") =>
              /\ is_loaded
              /\ motor'[driver_joint_id(variant)].mode = "VELOCITY"
              /\ motor'[driver_joint_id(variant)].velocity = grasp_speed(variant)
              /\ motor'[driver_joint_id(variant)].force = force(variant)
              /\ \A j \in DOMAIN motor \ {driver_joint_id(variant)} : motor'[j] = motor[j]
              /\ simulated_steps' = simulated_steps
         ]_vars
    /\ []((pc = "idle" /\ lastOp.op = "close" /\ lastOp.result = "ok") =>
              /\ lastOp.ret = RetNone
              /\ lastOp.arg.steps * Dt = CloseSeconds * TicksPerSecond)
    /\ (pc = "closing" ~> pc = "idle")

\* C10: close() has returned, the driver still under velocity control
C10_Witness ==
    /\ pc = "idle" /\ lastOp.op = "close" /\ lastOp.result = "ok"
    /\ lastOp.arg.steps > 0
    /\ motor[driver_joint_id(variant)].mode = "VELOCITY"

(* ================================ mount =============================== *)
\* C11: the mount is unattached until it is constructed and attached, by one
\* fixed constraint to the gripper's base, from then on; no step removes the
\* mount or its constraint.  It is moving exactly while a go_to_cartesian_pos
\* call is in progress; the call leaves only by returning a boolean, with the
\* mount attached and idle; and after a return the call can be made again,
\* each call solving the joint targets for its own target_pos and entering
\* the loop at the current clock.
C11_MountStateMachine ==
    /\ [](mount_id = None => (constraints = {} /\ pc # "moving"))
    /\ [](mount_id # None => (is_loaded /\ constraints = {Attachment(GripperBody)}))
    /\ [](pc = "moving" <=> frame.call = "go_to_cartesian_pos")
    /\ []((ReturnedFromGoTo /\ simulated_steps <= MaxSimSteps)
              => ENABLED go_to_cartesian_pos)
    /\ [][ /\ mount_id # None =>
                (mount_id' = mount_id /\ constraints' = constraints)
           /\ (pc = "moving" /\ pc' # "moving") =>
                /\ pc' = "idle"
                /\ lastOp'.op = "go_to_cartesian_pos"
                /\ lastOp'.ret \in {RetBool(TRUE), RetBool(FALSE)}
           /\ (pc # "moving" /\ pc' = "moving") =>
                /\ pc = "idle" /\ mount_id # None
                /\ frame'.t0 = simulated_steps
                /\ simulated_steps' = simulated_steps
                /\ \A a \in Axes :
                      mountMotor'[a].target = frame'.target_pos[a] - mountPos[a]
         ]_vars

\* C11: a second call is in its loop, the carriage away from where it
\* started, after a first call stepped and returned false
C11_Witness ==
    /\ pc = "moving"
    /\ lastOp.op = "go_to_cartesian_pos" /\ lastOp.ret = RetBool(FALSE)
    /\ lastOp.arg.steps > 0
    /\ simulated_steps > frame.t0
    /\ frame.target_pos \in Workspace
    /\ eePos # Origin

(* ================================ poses =============================== *)
\* the transform from the gripper's base to its grasp centre
GraspCentreOffset == tf_from_pos_quat(get_pos_offset(variant), get_orn_offset(variant))

\* C12: the position and orientation computed for a grasp pose are those of
\* the grasp pose composed with the inverse of the grasp-centre offset, and
\* composing that base pose with the same offset gives the grasp pose back,
\* for every grasp pose whose rotation maps the axes onto each other.
C12_BasePoseRoundTrips ==
    lastOp.op = "_get_pos_orn_from_grasp_pose" =>
        LET base_pose == tf_from_pos_quat(lastOp.ret[2][1], lastOp.ret[2][2]) IN
        /\ base_pose = TfCompose(lastOp.arg, TfInverse(GraspCentreOffset))
        /\ TfCompose(base_pose, GraspCentreOffset) = lastOp.arg

\* C12: a grasp pose that is turned and displaced, and a base that ends up
\* neither at the grasp centre nor with its orientation
C12_Witness ==
    /\ lastOp.op = "_get_pos_orn_from_grasp_pose"
    /\ lastOp.arg.pos # Origin
    /\ lastOp.arg.rot # QuatToMat(AxisQuat(1, 0))
    /\ lastOp.ret[2][1] # lastOp.arg.pos
    /\ QuatToMat(lastOp.ret[2][2]) # lastOp.arg.rot
    /\ lastOp.ret[2][2][4] = QHalf

(* ========================== contact requirement ======================= *)
\* the link ids of an entry, as a set
EntryLinks(entry) == {entry.ids[i] : i \in 1..Len(entry.ids)}

\* C13: a contact requirement is judged satisfied exactly when no top-level
\* entry is without a link in contact (a single link must be in contact, of a
\* nested group at least one member); for [link1, [link3, link4]] that is
\* link1 and (link3 or link4).  get_contact_link_ids returns the variant's
\* requirement, [1, 3] or [3, 8], whatever load, set_open_scale, close and
\* simulation steps came before.
C13_ContactRequirement ==
    /\ lastOp.op = "contacts_satisfied" =>
        /\ lastOp.ret[2] =
              (~ \E i \in 1..Len(lastOp.arg.requirement) :
                    EntryLinks(lastOp.arg.requirement[i]) \cap lastOp.arg.in_contact = {})
        /\ lastOp.arg.requirement = NestedRequirement =>
              lastOp.ret[2] = (/\ 1 \in lastOp.arg.in_contact
                               /\ (3 \in lastOp.arg.in_contact \/ 4 \in lastOp.arg.in_contact))
    /\ lastOp.op = "get_contact_link_ids" =>
        /\ lastOp.result = "ok"
        /\ lastOp.ret[2] = IF variant = "WSG32" THEN <<Link(1), Link(3)>>
                           ELSE <<Link(3), Link(8)>>

\* C13: after a close, link1 and link4 in contact and link3 not: the nested
\* requirement is satisfied
C13_Witness ==
    /\ lastOp.op = "contacts_satisfied"
    /\ lastOp.arg.requirement = NestedRequirement
    /\ lastOp.arg.in_contact = {1, 4}
    /\ lastOp.ret = RetBool(TRUE)
    /\ simulated_steps > 0
    /\ motor[driver_joint_id(variant)].mode = "VELOCITY"

(* =============================== lifecycle ============================ *)
\* C14: is_loaded() holds exactly when the body handle is not null, and then
\* the engine holds the body; a gripper is created unloaded; the handle
\* changes only from null to the handle of the loaded body, in a load that
\* succeeds, so no later operation of the gripper, the callback or the mount
\* resets or replaces it.
C14_LoadedIffHandle ==
    /\ [](is_loaded <=> body_id # None)
    /\ [](is_loaded <=> jointPos # <<>>)
    /\ [](lastOp.op = "__init__" => body_id = None)
    /\ [][ body_id' # body_id =>
              /\ body_id = None
              /\ body_id' = GripperBody
              /\ lastOp'.op = "load" /\ lastOp'.result = "ok"
         ]_vars

\* C14: still loaded after a mount was attached and a close() ran its steps
C14_Witness ==
    /\ is_loaded /\ body_id = GripperBody
    /\ mount_id # None
    /\ pc = "idle" /\ lastOp.op = "close" /\ lastOp.result = "ok"
    /\ simulated_steps > 0

\* C15: a load whose asset the engine rejects ends with the engine's error
\* after the one attempt: the gripper stays unloaded, the engine holds no
\* joints, masses or friction of it, and no callback is registered; nothing
\* but the record of the failed call changes.
C15_RejectedAssetLeavesUnloaded ==
    /\ []((lastOp.op = "load" /\ lastOp.result = "EngineError") =>
            /\ lastOp.calls = 1
            /\ ~is_loaded /\ body_id = None
            /\ jointPos = <<>> /\ linkMass = <<>> /\ linkFriction = <<>>
            /\ step_funcs = <<>>)
    /\ [][ (lastOp'.op = "load" /\ lastOp'.result = "EngineError") =>
              UNCHANGED <<scriptVars, gripperVars, bodyVars, simVars, mountVars, pc, frame>>
         ]_vars

\* C15: the engine has rejected the asset of a valid load
C15_Witness ==
    /\ lastOp.op = "load" /\ lastOp.result = "EngineError"
    /\ ~OutOfRange(OpenScaleArg(lastOp))
    /\ body_id = None

\* the joints of the loaded gripper have not moved since the latest call
NoStepSince == simulated_steps = lastOp.t0

\* C16: after a load that is given no open scale the gripper is fully open:
\* the joints are where open scale 1.0 puts them.  For WSG32 the moving
\* joints 0 and 2 are at -d and +d, d the finger open distance; for
\* Robotiq2F140 the driver is at its lower limit and follower i at sign_i
\* times that.
C16_LoadedFullyOpen ==
    (/\ lastOp.op = "load" /\ lastOp.result = "ok" /\ Len(lastOp.arg) = 1
     /\ NoStepSince) =>
        IF variant = "WSG32"
        THEN /\ jointPos[0] = 0 - FingerOpenDistance
             /\ jointPos[2] = FingerOpenDistance
             /\ jointPos = WSG32_set_open_scale(jointPos, OpenScaleMax)
        ELSE /\ jointPos[0] = DriverJointLower
             /\ \A i \in 1..Len(follower_joint_ids(variant)) :
                   jointPos[follower_joint_ids(variant)[i]]
                       = follower_joint_sign(variant)[i] * DriverJointLower
             /\ jointPos = Robotiq_initial_joints(jointPos, OpenScaleMax)

\* C16: the WSG32 loaded, its fingers apart by the full distance
C16_Witness ==
    /\ variant = "WSG32"
    /\ lastOp.op = "load" /\ lastOp.result = "ok" /\ Len(lastOp.arg) = 1
    /\ NoStepSince
    /\ jointPos[2] - jointPos[0] = 2 * FingerOpenDistance

(* ========================== carriage commands ========================= *)
\* the command go_to_cartesian_pos puts on carriage joint a for target_pos
SolvedCommand(target_pos, a) ==
    [mode |-> "POSITION", target |-> target_pos[a] - mountPos[a],
     velocity |-> 2, force |-> 500, gain |-> 2]

\* C17: a go_to_cartesian_pos call solves the inverse kinematics once, at
\* entry, and there puts one position command per carriage joint toward the
\* solved target, before any step of the call; neither a step of the loop
\* nor the return solves or commands again, so the carriage joints keep the
\* solved targets after the call (they are not put back to 0).
C17_InverseKinematicsSolvedOnce ==
    /\ [](pc = "moving" => frame.ik_calls = 1)
    /\ [](ReturnedFromGoTo => lastOp.arg.ik_calls = 1)
    /\ [][ /\ (pc = "idle" /\ pc' = "moving") =>
                /\ simulated_steps' = simulated_steps
                /\ \A a \in Axes : mountMotor'[a] = SolvedCommand(frame'.target_pos, a)
           /\ pc = "moving" =>
                /\ mountMotor' = mountMotor
                /\ pc' = "moving" => frame' = frame
                /\ \A a \in Axes : mountMotor'[a] = SolvedCommand(frame.target_pos, a)
         ]_vars

\* C17: a call toward a target away from the carriage's base has stepped and
\* returned, the commands toward that target still standing
C17_Witness ==
    /\ ReturnedFromGoTo
    /\ lastOp.arg.steps > 0
    /\ \E a \in Axes : mountMotor[a].mode = "POSITION" /\ mountMotor[a].target # 0

\* C18: attaching the mount commands every carriage joint to hold position 0
\* with force 1000, twice the force go_to_cartesian_pos moves them with; the
\* commands on the carriage joints change only when the mount is attached
\* and when go_to_cartesian_pos is entered: not in close(), in
\* set_open_scale, in the coupling callback or in any simulation step.
C18_CarriageHeldUntilGoTo ==
    [][ /\ (mount_id = None /\ mount_id' # None) =>
            \A a \in Axes :
                /\ mountMotor'[a].mode = "POSITION"
                /\ mountMotor'[a].target = 0
                /\ mountMotor'[a].force = 1000
                /\ mountMotor'[a].force >= 2 * SolvedCommand(Origin, a).force
        /\ mountMotor' # mountMotor =>
            \/ mount_id = None /\ mount_id' # None
            \/ pc = "idle" /\ pc' = "moving"
        /\ (\/ pc = "closing" \/ pc' = "closing"
            \/ simulated_steps' # simulated_steps
            \/ /\ pc = "idle" /\ pc' = "idle"
               /\ lastOp'.op \in {"set_open_scale", "step_constraints", "close"}) =>
            mountMotor' = mountMotor
      ]_vars

\* C18: the mount attached, then a close() that has stepped, the carriage
\* joints still held at 0
C18_Witness ==
    /\ mount_id # None
    /\ pc = "closing" /\ simulated_steps > frame.t0
    /\ cb_calls = 1
    /\ \A a \in Axes : mountMotor[a] = HoldCommand

(* ============================== ownership ============================= *)
\* the coupling callback has run: in a simulation step, or called directly
CallbackRan ==
    \/ simulated_steps' # simulated_steps
    \/ pc = "idle" /\ pc' = "idle" /\ lastOp'.op = "step_constraints"

\* C19: the coupling callback changes the command of no joint but the
\* followers of the gripper's body, so never the driver's and never a
\* carriage joint's; close() changes the command of the driver joint and of
\* no other joint; go_to_cartesian_pos commands the three carriage joints and
\* changes nothing of the gripper's body.
C19_CommandsOnlyOwnedJoints ==
    /\ [](driver_joint_id(variant) \notin FollowerSet(variant))
    /\ [][ /\ CallbackRan =>
                /\ \A j \in DOMAIN motor \ FollowerSet(variant) : motor'[j] = motor[j]
                /\ DOMAIN motor' = DOMAIN motor
                /\ mountMotor' = mountMotor
           /\ (pc = "idle" /\ pc' = "closing") =>
                /\ \A j \in DOMAIN motor \ {driver_joint_id(variant)} : motor'[j] = motor[j]
                /\ motor'[driver_joint_id(variant)].mode = "VELOCITY"
                /\ DOMAIN motor' = DOMAIN motor
                /\ mountMotor' = mountMotor
           /\ (pc = "idle" /\ pc' = "moving") =>
                /\ DOMAIN mountMotor' = Axes
                /\ UNCHANGED bodyVars
         ]_vars

\* C19: the five-follower variant in a close() that has stepped: the driver
\* under the velocity command of close(), the followers under the position
\* commands of the callback, the other joints never commanded, the carriage
\* held
C19_Witness ==
    /\ variant = "Robotiq2F140" /\ mount_id # None
    /\ pc = "closing" /\ simulated_steps > frame.t0
    /\ motor[driver_joint_id(variant)] = CloseCommand(variant)
    /\ \A j \in FollowerSet(variant) : motor[j].mode = "POSITION"
    /\ \A j \in DOMAIN motor \ (FollowerSet(variant) \cup {driver_joint_id(variant)}) :
          motor[j] = NoCmd
    /\ \A a \in Axes : mountMotor[a] = HoldCommand

\* C20: a direct invocation of the coupling callback on a loaded gripper
\* changes nothing but the commands standing on the joints: no attribute of
\* the gripper object, no joint position or link property, not the clock, the
\* registered callbacks or the mount.  It returns the driver joint's current
\* position.  Invoked again with no step in between it issues the same
\* targets: the commands it leaves are those a further invocation leaves.
C20_CallbackIdempotent ==
    [][ (/\ pc = "idle" /\ pc' = "idle"
         /\ lastOp'.op = "step_constraints" /\ lastOp'.result = "ok") =>
            /\ UNCHANGED <<scriptVars, gripperVars, basePos, jointPos, linkMass, linkFriction,
                           linkColor, simVars, mountVars, frame>>
            /\ lastOp'.ret = RetVal(jointPos[driver_joint_id(variant)])
            /\ StepConstraints(variant, jointPos', motor') = motor'
            /\ FollowerTargetsFollow(jointPos'[driver_joint_id(variant)], motor')
            /\ lastOp' = lastOp => motor' = motor
      ]_vars

\* C20: the callback invoked directly after a close() moved the driver off 0,
\* the followers commanded to the signed driver position
C20_Witness ==
    /\ pc = "idle" /\ is_loaded
    /\ lastOp.op = "step_constraints" /\ lastOp.result = "ok"
    /\ simulated_steps > 0
    /\ jointPos[driver_joint_id(variant)] # 0
    /\ lastOp.ret = RetVal(jointPos[driver_joint_id(variant)])
    /\ FollowerTargetsFollow(jointPos[driver_joint_id(variant)], motor)

(* ============================ control modes =========================== *)
\* C21: for the WSG32, load and set_open_scale put the moving joints where
\* they belong by resetting them and issue no motor command; the driver joint
\* carries no motor command until a close() is entered, which puts it under
\* velocity control, where it stays; and from then on every simulation step
\* runs the callback, which commands the follower to the position that is
\* minus the driver's.
C21_ResetAtLoadVelocityFromClose ==
    /\ []((variant = "WSG32" /\ is_loaded) =>
            /\ motor[driver_joint_id(variant)] \in {NoCmd, CloseCommand(variant)}
            /\ \A j \in DOMAIN motor \ {0, 2} : motor[j] = NoCmd)
    /\ [][ variant = "WSG32" =>
            /\ (pc = "idle" /\ pc' = "idle" /\ lastOp'.op = "load"
                    /\ lastOp'.result = "ok") =>
                /\ \A j \in DOMAIN motor' : motor'[j] = NoCmd
                /\ jointPos'[0] # 0 /\ jointPos'[2] # 0
            /\ (pc = "idle" /\ pc' = "idle" /\ lastOp'.op = "set_open_scale"
                    /\ lastOp'.result = "ok") =>
                /\ motor' = motor
                /\ jointPos' = WSG32_set_open_scale(jointPos, lastOp'.arg[1])
            /\ (is_loaded /\ motor'[0] # motor[0]) =>
                /\ pc = "idle" /\ pc' = "closing"
                /\ motor[0] = NoCmd
                /\ motor'[0].mode = "VELOCITY"
            /\ (is_loaded /\ motor[0].mode = "VELOCITY") =>
                /\ motor'[0] = motor[0]
                /\ simulated_steps' # simulated_steps =>
                    /\ motor'[2].mode = "POSITION"
                    /\ motor'[2].target = 0 - jointPos[0]
         ]_vars

\* C21: a close() of the WSG32 has stepped: the driver under velocity
\* control and moved from where load put it, the follower under a position
\* command
C21_Witness ==
    /\ variant = "WSG32"
    /\ pc = "closing" /\ simulated_steps > frame.t0
    /\ motor[0].mode = "VELOCITY"
    /\ motor[2].mode = "POSITION"
    /\ jointPos[0] # 0 - FingerOpenDistance

(* ================================= mass =============================== *)
\* C22 as stated: whenever mass has just been read on a loaded gripper, the
\* value returned is the sum of the masses the engine holds for the base
\* link and all joint links.
C22_AsStated ==
    (lastOp.op = "mass" /\ lastOp.result = "ok") =>
        lastOp.ret = RetVal(SumOfMasses(linkMass, getNumJoints))

C24_CoupledAfterLoadAndSetOpenScale ==
    /\ \A s \in OpenScaleMin..OpenScaleMax :
          /\ DriverJointLower <= Robotiq_driver_pos(s)
          /\ Robotiq_driver_pos(s) <= DriverJointUpper
    /\ (/\ lastOp.op \in {"load", "set_open_scale"} /\ lastOp.result = "ok"
        /\ NoStepSince) =>
          /\ \A i \in 1..Len(follower_joint_ids(variant)) :
                LET f == follower_joint_ids(variant)[i] IN
                /\ jointPos[f] = follower_joint_sign(variant)[i]
                                    * jointPos[driver_joint_id(variant)]
                /\ StepConstraints(variant, jointPos, motor)[f].mode = "POSITION"
                /\ StepConstraints(variant, jointPos, motor)[f].target = jointPos[f]
          /\ variant = "Robotiq2F140" =>
                /\ DriverJointLower <= jointPos[driver_joint_id(variant)]
                /\ jointPos[driver_joint_id(variant)] <= DriverJointUpper
                /\ jointPos[driver_joint_id(variant)] = Robotiq_driver_pos(OpenScaleArg(lastOp))

\* C24: the Robotiq2F140 loaded at open scale 0.1: the driver near its upper
\* limit, followers 5 and 2 at minus and plus the driver's position
C24_Witness ==
    /\ variant = "Robotiq2F140"
    /\ lastOp.op = "load" /\ lastOp.result = "ok" /\ NoStepSince
    /\ OpenScaleArg(lastOp) = OpenScaleMin
    /\ jointPos[0] > 0
    /\ jointPos[5] = 0 - jointPos[0]
    /\ jointPos[2] = jointPos[0]

(* ====================== steps of go_to_cartesian_pos ================== *)
\* the loop of the call in progress has nothing left to do: the end effector
\* is within tolerance, or the clock has reached the deadline
LoopDone ==
    \/ NormBelow(frame.target_pos, eePos, frame.tolerance)
    \/ simulated_steps * Dt >= frame.t0 * Dt + frame.timeout

\* C25: go_to_cartesian_pos takes no step when the end effector is within
\* tolerance at call time (it returns true) and when timeout is 0 (it returns
\* the distance check on the state it was called in); otherwise every
\* iteration advances the simulation by exactly one step, an iteration is run
\* only while the end effector is not within tolerance and the clock is
\* before the deadline, and the call returns at the first step count at which
\* one of the two holds, reporting that count.
C25_StepsAreMinimal ==
    /\ []((ReturnedFromGoTo /\ lastOp.arg.timeout = 0) =>
            /\ lastOp.arg.steps = 0
            /\ lastOp.ret = RetBool(NormBelow(CommandedTarget, eePos, lastOp.arg.tolerance)))
    /\ [][ pc = "moving" =>
            /\ (simulated_steps = frame.t0 /\ (frame.timeout = 0
                    \/ NormBelow(frame.target_pos, eePos, frame.tolerance))) =>
                /\ pc' = "idle"
                /\ lastOp'.arg.steps = 0
                /\ UNCHANGED <<bodyVars, simVars, eePos>>
                /\ NormBelow(frame.target_pos, eePos, frame.tolerance) =>
                      lastOp'.ret = RetBool(TRUE)
            /\ pc' = "moving" =>
                /\ ~LoopDone
                /\ simulated_steps' = simulated_steps + 1
            /\ pc' = "idle" =>
                /\ LoopDone
                /\ simulated_steps' = simulated_steps
                /\ lastOp'.arg.steps = simulated_steps - frame.t0
         ]_vars

\* C25: a call with timeout 0 toward a target the end effector is not on has
\* returned false without a step, after an earlier call had moved the
\* carriage
C25_Witness ==
    /\ ReturnedFromGoTo
    /\ lastOp.arg.timeout = 0 /\ lastOp.arg.steps = 0
    /\ lastOp.ret = RetBool(FALSE)
    /\ simulated_steps > 0
    /\ eePos # CommandedTarget

(* ============================== attachment ============================ *)
\* what joint_pos, cartesian_pos and go_to_cartesian_pos leave alone
MountReadOps == {"joint_pos", "cartesian_pos"}

\* C26: a mount holds exactly one constraint from its construction on: a
\* fixed one from the carriage's end-effector link to link -1, the base, of
\* the gripper it was given, both frame offsets zero; the carriage is put
\* where the gripper's base is at that moment.  No later step, so neither
\* joint_pos, cartesian_pos nor go_to_cartesian_pos, adds or removes a
\* constraint, and joint_pos and cartesian_pos change nothing of the engine
\* and do not advance the clock.
C26_OneAttachmentForLife ==
    /\ [](mount_id # None =>
            /\ Cardinality(constraints) = 1
            /\ \A c \in constraints :
                  /\ c.parent = mount_id /\ c.parentLink = "end_effector_link"
                  /\ c.child = body_id /\ c.childLink = -1
                  /\ c.jointType = "JOINT_FIXED"
                  /\ c.parentFramePosition = Origin
                  /\ c.childFramePosition = Origin)
    /\ [][ /\ (mount_id = None /\ mount_id' # None) =>
                /\ constraints = {}
                /\ mountPos' = basePos /\ eePos' = basePos
                /\ simulated_steps' = simulated_steps
           /\ mount_id # None => constraints' = constraints
           /\ (pc = "idle" /\ pc' = "idle" /\ lastOp'.op \in MountReadOps) =>
                UNCHANGED <<gripperVars, bodyVars, simVars, mountVars, frame>>
         ]_vars

\* C26: the one constraint still standing after a go_to_cartesian_pos moved
\* the carriage and cartesian_pos was read
C26_Witness ==
    /\ mount_id # None
    /\ lastOp.op = "cartesian_pos"
    /\ lastOp.ret[2] # mountPos
    /\ simulated_steps > 0
    /\ Cardinality(constraints) = 1

(* ========================= create_object_library ====================== *)
\* the workers that are inside create_object_type
Busy(w) == worker[w].pc # "idle"
CurrentShape(w) == Head(worker[w].chunk).shape

\* C27, as stated: no two worker processes are ever inside
\* create_object_type for two grasp files of the same shape, so no two of
\* them test for or generate the VHACD file of one shape at the same time.
C27_AsStated ==
    \A w1, w2 \in DOMAIN worker :
        (w1 # w2 /\ Busy(w1) /\ Busy(w2)) =>
            CurrentShape(w1) # CurrentShape(w2)

====
